---- MODULE Spec2Model ----
(* Model of tools/create_package.py: the lesson packaging pipeline.        *)
(* The file system is the state; every file-system call of create_package  *)
(* is one step, and the calls that are not atomic in the library (a copy,  *)
(* a write through open(..., "w"), the archive) are two steps: the open    *)
(* that truncates and the write that fills.                                *)
EXTENDS Integers, Sequences, FiniteSets, TLC

\* ---------------------------------------------------------------- bounds
\* failing calls and external changes in one behaviour, together
MaxEvents == 2

\* ------------------------------------------------------------- constants
package_name == "microbit_1st_grade_lesson_package"
zip_path == "microbit_1st_grade_lesson_package.zip"
dirs == <<"guides", "worksheets", "templates", "qrcodes", "resources">>
Root == "."

copies == <<
  [src |-> <<Root, "teacher_guide_microbit_1st_grade.md">>,
   dst |-> <<"guides", "teacher_guide_microbit_1st_grade.md">>],
  [src |-> <<Root, "teacher_guide_microbit_1st_grade.pdf">>,
   dst |-> <<"guides", "teacher_guide_microbit_1st_grade.pdf">>],
  [src |-> <<Root, "student_worksheet_microbit_1st_grade.md">>,
   dst |-> <<"worksheets", "student_worksheet_microbit_1st_grade.md">>],
  [src |-> <<Root, "student_worksheet_microbit_1st_grade.pdf">>,
   dst |-> <<"worksheets", "student_worksheet_microbit_1st_grade.pdf">>],
  [src |-> <<"templates", "makecode_smile_template.ts">>,
   dst |-> <<"templates", "makecode_smile_template.ts">>],
  [src |-> <<"templates", "microbit_smile_template.py">>,
   dst |-> <<"templates", "microbit_smile_template.py">>],
  [src |-> <<"templates", "README_generate_hex.md">>,
   dst |-> <<"resources", "README_generate_hex.md">>] >>

\* The README text as words; each bullet of the file list is a directory
\* name followed by "/".
readme_content ==
  <<"# package", "- **", "guides", "/", "**", "- **", "worksheets", "/", "**",
    "- **", "templates", "/", "**", "- **", "qrcodes", "/", "**",
    "- **", "resources", "/", "**", "usage", "links", "2026-01-30">>

ReadmePath == <<Root, "README.md">>

\* File names that may lie in <base>/qrcodes, each with its spelling.
QRNames == {"a.png", "b.jpg", "c.txt"}
Spell(name) ==
  CASE name = "a.png" -> <<"a", ".", "p", "n", "g">>
    [] name = "b.jpg" -> <<"b", ".", "j", "p", "g">>
    [] name = "c.txt" -> <<"c", ".", "t", "x", "t">>
PngSuffix == <<".", "p", "n", "g">>

\* Contents a source file may have (of different lengths).
Data == {<<"x">>, <<"y", "y">>}

\* ----------------------------------------------------------- file values
Absent == [ex |-> FALSE, data |-> <<>>]
FileOf(c) == [ex |-> TRUE, data |-> c]

Range(s) == {s[k] : k \in DOMAIN s}
SrcPaths == {copies[k].src : k \in DOMAIN copies}
DstPaths == {copies[k].dst : k \in DOMAIN copies}
QrDst(name) == <<"qrcodes", name>>
PkgPaths == DstPaths \cup {QrDst(n) : n \in QRNames} \cup {ReadmePath}
PkgDirs == {Root} \cup Range(dirs)

Procs == {1, 2}

VARIABLES
  basefiles,  \* the manifest sources under <base>: path -> file
  qrdir,      \* whether <base>/qrcodes exists
  qrfiles,    \* the files of <base>/qrcodes: name -> file
  pkgdirs,    \* the directories of the package that exist
  files,      \* the files of the package: path -> file
  zip,        \* the archive <base>/<package_name>.zip
  pc,         \* each invocation's position
  i,          \* each invocation's loop index
  todo,       \* each invocation's os.listdir names still to visit
  cur,        \* the QR name an invocation is copying
  snap,       \* what an invocation has walked into its archive
  raced,      \* whether another invocation had the archive open meanwhile
  log,        \* each invocation's printed lines
  off,        \* the offset of the file an invocation has open for writing
  early,      \* whether an invocation walked the package while another filled it
  pre,        \* the package and archive as they were when the last run started
  rerun,      \* whether the last run started right after a completed run
  touched,    \* whether a source changed since the last run started
  events      \* number of failed calls and external changes so far

vars == <<basefiles, qrdir, qrfiles, pkgdirs, files, zip, pc, i, todo, cur,
          snap, raced, log, off, early, pre, rerun, touched, events>>

\* ------------------------------------------------------ library functions
\* str.endswith
EndsWith(s, suf) ==
  /\ Len(s) >= Len(suf)
  /\ SubSeq(s, Len(s) - Len(suf) + 1, Len(s)) = suf

\* mutant: the loop has no test of the name
IsAnyName(name) == Len(Spell(name)) >= 0

\* the test of the QR loop
IsPng(name) == EndsWith(Spell(name), PngSuffix)

\* os.path.basename
basename(path) == path[2]

\* os.path.exists on a manifest source
exists(path) == basefiles[path].ex

\* mutant: nothing is created once the package root exists
makedirs_once(ds, d) == IF Root \in ds THEN ds ELSE ds \cup {Root, d}

\* os.makedirs(path, exist_ok=True): the directory and its parents
makedirs(ds, d) == ds \cup {Root, d}

\* open(path, "w") / "wb": the file is created or truncated
OpenW(f) == FileOf(<<>>)

\* f.write(c) at offset o of an open file
WriteAt(f, o, c) ==
  FileOf(SubSeq(f.data, 1, o) \o c \o SubSeq(f.data, o + Len(c) + 1, Len(f.data)))

\* os.listdir(qrcodes_dir)
listdir == {n \in QRNames : qrfiles[n].ex}

\* ------------------------------------------------------------ the archive
NoZip == [st |-> "absent", entries |-> {}]
OpenZip == [st |-> "open", entries |-> {}]
CorruptZip == [st |-> "corrupt", entries |-> {}]

ArcOf(path) ==
  IF path[1] = Root THEN <<package_name, path[2]>>
  ELSE <<package_name, path[1], path[2]>>

DirArc(d) == IF d = Root THEN <<package_name>> ELSE <<package_name, d>>

\* mutant: directories that hold no file are left out of the archive
make_archive_files(ds, fs) ==
  [st |-> "ok",
   entries |->
     {[arc |-> DirArc(d), kind |-> "dir", data |-> <<>>] :
        d \in {e \in ds : e = Root \/ \E q \in PkgPaths : fs[q].ex /\ q[1] = e}}
     \cup {[arc |-> ArcOf(q), kind |-> "file", data |-> fs[q].data] :
             q \in {r \in PkgPaths : fs[r].ex /\ r[1] \in ds}}]

\* shutil.make_archive(base, 'zip', base_dir, package_name): the entry of
\* the package directory, then os.walk: every directory and every file.
make_archive(ds, fs) ==
  [st |-> "ok",
   entries |->
     {[arc |-> DirArc(d), kind |-> "dir", data |-> <<>>] : d \in ds}
     \cup {[arc |-> ArcOf(q), kind |-> "file", data |-> fs[q].data] :
             q \in {r \in PkgPaths : fs[r].ex /\ r[1] \in ds}}]

\* the tree an archive inflates to
ExtractDirs(z) ==
  {d \in PkgDirs : \E e \in z.entries :
     \/ e.kind = "dir" /\ e.arc = DirArc(d)
     \/ e.kind = "file" /\ \E q \in PkgPaths : e.arc = ArcOf(q) /\ d \in {Root, q[1]}}

ExtractFiles(z) ==
  [q \in PkgPaths |->
     IF \E e \in z.entries : e.kind = "file" /\ e.arc = ArcOf(q)
     THEN FileOf((CHOOSE e \in z.entries : e.kind = "file" /\ e.arc = ArcOf(q)).data)
     ELSE Absent]

\* ----------------------------------------------------------------- state
Tree == [dirs |-> pkgdirs, files |-> files, zip |-> zip]

Stopped == {"idle", "done", "failed"}

InitBase ==
  /\ pkgdirs = {}
  /\ files = [q \in PkgPaths |-> Absent]
  /\ zip = NoZip
  /\ pc = [p \in Procs |-> "idle"]
  /\ i = [p \in Procs |-> 1]
  /\ todo = [p \in Procs |-> {}]
  /\ cur = [p \in Procs |-> "a.png"]
  /\ snap = [p \in Procs |-> NoZip]
  /\ raced = [p \in Procs |-> FALSE]
  /\ log = [p \in Procs |-> <<>>]
  /\ off = [p \in Procs |-> 0]
  /\ early = [p \in Procs |-> FALSE]
  /\ pre = [dirs |-> {}, files |-> [q \in PkgPaths |-> Absent], zip |-> NoZip]
  /\ rerun = FALSE
  /\ touched = FALSE
  /\ events = 0

\* The authored sources are there; the PDFs (made by md_to_pdf.py) and the
\* QR directory (made by generate_qr_codes.py) may not have been made yet.
Generated == {copies[2].src, copies[4].src}

Init ==
  /\ basefiles \in [SrcPaths -> {Absent, FileOf(<<"x">>)}]
  /\ \A s \in SrcPaths \ Generated : basefiles[s].ex
  /\ basefiles[copies[2].src] = basefiles[copies[4].src]
  /\ qrdir \in BOOLEAN
  /\ qrfiles = [n \in QRNames |-> IF qrdir THEN FileOf(<<"x">>) ELSE Absent]
  /\ InitBase

\* a printed line: its fixed words and the names formatted into it
Line(kind, text) == [kind |-> kind, text |-> text]
Say(p, line) == log' = [log EXCEPT ![p] = Append(@, line)]
Goto(p, where) == pc' = [pc EXCEPT ![p] = where]

fsvars == <<pkgdirs, files, zip>>
envvars == <<basefiles, qrdir, qrfiles>>

\* mutant: an invocation waits until no other one is running
StartLocked(p) ==
  /\ \A q \in Procs \ {p} : pc[q] \in Stopped
  /\ pc[p] \in Stopped
  /\ Goto(p, "mkroot")
  /\ i' = [i EXCEPT ![p] = 1]
  /\ todo' = [todo EXCEPT ![p] = {}]
  /\ snap' = [snap EXCEPT ![p] = NoZip]
  /\ raced' = [raced EXCEPT ![p] = FALSE]
  /\ early' = [early EXCEPT ![p] = FALSE]
  /\ off' = [off EXCEPT ![p] = 0]
  /\ log' = [log EXCEPT ![p] = <<>>]
  /\ pre' = Tree
  /\ rerun' = (pc[p] = "done" /\ ~touched)
  /\ touched' = FALSE
  /\ UNCHANGED <<basefiles, qrdir, qrfiles, pkgdirs, files, zip, cur, events>>

\* ------------------------------------------------------------ operations
\* A new invocation of create_package (lines 7-10).
Start(p) ==
  /\ pc[p] \in Stopped
  /\ Goto(p, "mkroot")
  /\ i' = [i EXCEPT ![p] = 1]
  /\ todo' = [todo EXCEPT ![p] = {}]
  /\ snap' = [snap EXCEPT ![p] = NoZip]
  /\ raced' = [raced EXCEPT ![p] = FALSE]
  /\ early' = [early EXCEPT ![p] = FALSE]
  /\ off' = [off EXCEPT ![p] = 0]
  /\ log' = [log EXCEPT ![p] = <<>>]
  /\ pre' = Tree
  /\ rerun' = (pc[p] = "done" /\ ~touched)
  /\ touched' = FALSE
  /\ UNCHANGED <<basefiles, qrdir, qrfiles, pkgdirs, files, zip, cur, events>>

\* mutant: the package directory is emptied before it is filled
MkRootFresh(p) ==
  /\ pc[p] = "mkroot"
  /\ pkgdirs' = {Root}
  /\ files' = [q \in PkgPaths |-> Absent]
  /\ Goto(p, "mksub")
  /\ UNCHANGED <<basefiles, qrdir, qrfiles, zip, i, todo, cur, snap, raced, log,
                 off, early, pre, rerun, touched, events>>

\* os.makedirs(package_dir, exist_ok=True)
MkRoot(p) ==
  /\ pc[p] = "mkroot"
  /\ pkgdirs' = makedirs(pkgdirs, Root)
  /\ Goto(p, "mksub")
  /\ UNCHANGED <<basefiles, qrdir, qrfiles, files, zip, i, todo, cur, snap,
                 raced, log, off, early, pre, rerun, touched, events>>

\* for d in dirs: os.makedirs(os.path.join(package_dir, d), exist_ok=True)
MkSub(p) ==
  /\ pc[p] = "mksub"
  /\ pkgdirs' = makedirs(pkgdirs, dirs[i[p]])
  /\ IF i[p] < Len(dirs)
     THEN /\ i' = [i EXCEPT ![p] = @ + 1]
          /\ UNCHANGED pc
     ELSE /\ i' = [i EXCEPT ![p] = 1]
          /\ Goto(p, "copy")
  /\ UNCHANGED <<basefiles, qrdir, qrfiles, files, zip, todo, cur, snap,
                 raced, log, off, early, pre, rerun, touched, events>>

\* the end of one turn of "for src, dst in copies"
NextCopy(p) ==
  IF i[p] < Len(copies)
  THEN /\ i' = [i EXCEPT ![p] = @ + 1]
       /\ Goto(p, "copy")
  ELSE /\ i' = [i EXCEPT ![p] = 1]
       /\ Goto(p, "qr")

\* mutant: a destination that exists is not copied again
CopyOpenIfAbsent(p) ==
  /\ pc[p] = "copy"
  /\ exists(copies[i[p]].src)
  /\ IF files[copies[i[p]].dst].ex
     THEN /\ NextCopy(p)
          /\ UNCHANGED <<files, off>>
     ELSE /\ files' = [files EXCEPT ![copies[i[p]].dst] = OpenW(@)]
          /\ off' = [off EXCEPT ![p] = 0]
          /\ Goto(p, "copyw")
          /\ UNCHANGED i
  /\ UNCHANGED <<basefiles, qrdir, qrfiles, pkgdirs, zip, todo, cur, snap,
                 raced, log, early, pre, rerun, touched, events>>

\* os.path.exists(src) is true: shutil.copy2 opens dst for writing
CopyOpen(p) ==
  /\ pc[p] = "copy"
  /\ exists(copies[i[p]].src)
  /\ files' = [files EXCEPT ![copies[i[p]].dst] = OpenW(@)]
  /\ off' = [off EXCEPT ![p] = 0]
  /\ Goto(p, "copyw")
  /\ UNCHANGED <<basefiles, qrdir, qrfiles, pkgdirs, zip, i, todo, cur, snap,
                 raced, log, early, pre, rerun, touched, events>>

\* shutil.copy2 writes the content of src; print("Copied: ...")
CopyWrite(p) ==
  /\ pc[p] = "copyw"
  /\ files' = [files EXCEPT ![copies[i[p]].dst] =
                 WriteAt(@, off[p], basefiles[copies[i[p]].src].data)]
  /\ Say(p, Line("Copied", <<basename(copies[i[p]].src)>>))
  /\ NextCopy(p)
  /\ UNCHANGED <<basefiles, qrdir, qrfiles, pkgdirs, zip, todo, cur, snap,
                 raced, off, early, pre, rerun, touched, events>>

\* mutant: a missing source ends the run
CopyMissingRaise(p) ==
  /\ pc[p] = "copy"
  /\ ~exists(copies[i[p]].src)
  /\ Goto(p, "failed")
  /\ UNCHANGED <<basefiles, qrdir, qrfiles, pkgdirs, files, zip, i, todo, cur,
                 snap, raced, log, off, early, pre, rerun, touched, events>>

\* os.path.exists(src) is false: print("Not found: ...")
CopyMissing(p) ==
  /\ pc[p] = "copy"
  /\ ~exists(copies[i[p]].src)
  /\ Say(p, Line("Not found", copies[i[p]].src))
  /\ NextCopy(p)
  /\ UNCHANGED <<basefiles, qrdir, qrfiles, pkgdirs, files, zip, todo, cur,
                 snap, raced, off, early, pre, rerun, touched, events>>

\* if os.path.exists(qrcodes_dir): for file in os.listdir(qrcodes_dir)
QrList(p) ==
  /\ pc[p] = "qr"
  /\ qrdir
  /\ todo' = [todo EXCEPT ![p] = listdir]
  /\ Goto(p, IF listdir = {} THEN "readme" ELSE "qrloop")
  /\ UNCHANGED <<basefiles, qrdir, qrfiles, pkgdirs, files, zip, i, cur,
                 snap, raced, log, off, early, pre, rerun, touched, events>>

\* os.path.exists(qrcodes_dir) is false
QrNoDir(p) ==
  /\ pc[p] = "qr"
  /\ ~qrdir
  /\ Goto(p, "readme")
  /\ UNCHANGED <<basefiles, qrdir, qrfiles, pkgdirs, files, zip, i, todo,
                 cur, snap, raced, log, off, early, pre, rerun, touched,
                 events>>

\* file.endswith(".png") is true: shutil.copy2 opens the destination
QrOpen(p) ==
  /\ pc[p] = "qrloop"
  /\ \E n \in todo[p] :
       /\ IsPng(n)
       /\ cur' = [cur EXCEPT ![p] = n]
       /\ files' = [files EXCEPT ![QrDst(n)] = OpenW(@)]
  /\ off' = [off EXCEPT ![p] = 0]
  /\ Goto(p, "qrw")
  /\ UNCHANGED <<basefiles, qrdir, qrfiles, pkgdirs, zip, i, todo, snap,
                 raced, log, early, pre, rerun, touched, events>>

\* shutil.copy2 writes the content; print("Copied QR: ...")
QrWrite(p) ==
  /\ pc[p] = "qrw"
  /\ files' = [files EXCEPT ![QrDst(cur[p])] =
                 WriteAt(@, off[p], qrfiles[cur[p]].data)]
  /\ Say(p, Line("Copied QR", <<cur[p]>>))
  /\ todo' = [todo EXCEPT ![p] = @ \ {cur[p]}]
  /\ Goto(p, IF todo[p] \ {cur[p]} = {} THEN "readme" ELSE "qrloop")
  /\ UNCHANGED <<basefiles, qrdir, qrfiles, pkgdirs, zip, i, cur, snap,
                 raced, off, early, pre, rerun, touched, events>>

\* file.endswith(".png") is false: the file is passed over
QrIgnore(p) ==
  /\ pc[p] = "qrloop"
  /\ \E n \in todo[p] :
       /\ ~IsPng(n)
       /\ todo' = [todo EXCEPT ![p] = @ \ {n}]
       /\ Goto(p, IF todo[p] \ {n} = {} THEN "readme" ELSE "qrloop")
  /\ UNCHANGED <<basefiles, qrdir, qrfiles, pkgdirs, files, zip, i, cur,
                 snap, raced, log, off, early, pre, rerun, touched, events>>

\* mutant: the README is opened in append mode
ReadmeOpenAppend(p) ==
  /\ pc[p] = "readme"
  /\ files' = [files EXCEPT ![ReadmePath] = IF @.ex THEN @ ELSE FileOf(<<>>)]
  /\ off' = [off EXCEPT ![p] = Len(files[ReadmePath].data)]
  /\ Goto(p, "readmew")
  /\ UNCHANGED <<basefiles, qrdir, qrfiles, pkgdirs, zip, i, todo, cur, snap,
                 raced, log, early, pre, rerun, touched, events>>

\* mutant: a README that exists is kept
ReadmeOpenIfAbsent(p) ==
  /\ pc[p] = "readme"
  /\ IF files[ReadmePath].ex
     THEN /\ Goto(p, "zip")
          /\ UNCHANGED <<files, off>>
     ELSE /\ files' = [files EXCEPT ![ReadmePath] = OpenW(@)]
          /\ off' = [off EXCEPT ![p] = 0]
          /\ Goto(p, "readmew")
  /\ UNCHANGED <<basefiles, qrdir, qrfiles, pkgdirs, zip, i, todo, cur, snap,
                 raced, log, early, pre, rerun, touched, events>>

\* open(os.path.join(package_dir, "README.md"), "w", encoding="utf-8")
ReadmeOpen(p) ==
  /\ pc[p] = "readme"
  /\ files' = [files EXCEPT ![ReadmePath] = OpenW(@)]
  /\ off' = [off EXCEPT ![p] = 0]
  /\ Goto(p, "readmew")
  /\ UNCHANGED <<basefiles, qrdir, qrfiles, pkgdirs, zip, i, todo, cur, snap,
                 raced, log, early, pre, rerun, touched, events>>

\* f.write(readme_content); print("Created README.md")
ReadmeWrite(p) ==
  /\ pc[p] = "readmew"
  /\ files' = [files EXCEPT ![ReadmePath] = WriteAt(@, off[p], readme_content)]
  /\ Say(p, Line("Created README.md", <<>>))
  /\ Goto(p, "zip")
  /\ UNCHANGED <<basefiles, qrdir, qrfiles, pkgdirs, zip, i, todo, cur, snap,
                 raced, off, early, pre, rerun, touched, events>>

\* The positions at which an invocation is still filling the package.
Filling == {"mkroot", "mksub", "copy", "copyw", "qr", "qrloop", "qrw",
            "readme", "readmew"}

\* shutil.make_archive opens the archive for writing (it is truncated) and
\* walks the package directory
ZipOpen(p) ==
  /\ pc[p] = "zip"
  /\ zip' = OpenZip
  /\ snap' = [snap EXCEPT ![p] = make_archive(pkgdirs, files)]
  /\ raced' = [q \in Procs |->
                 IF q = p THEN \E r \in Procs \ {p} : pc[r] = "zipw"
                 ELSE raced[q] \/ pc[q] = "zipw"]
  /\ early' = [early EXCEPT ![p] = \E r \in Procs \ {p} : pc[r] \in Filling]
  /\ Goto(p, "zipw")
  /\ UNCHANGED <<basefiles, qrdir, qrfiles, pkgdirs, files, i, todo, cur,
                 log, off, pre, rerun, touched, events>>

\* what the archive file holds once p has closed it: what p walked, unless
\* another invocation wrote the same file meanwhile
Closed(p) == IF raced[p] THEN {snap[p], CorruptZip} ELSE {snap[p]}

\* shutil.make_archive closes the archive; the two final prints
ZipClose(p) ==
  /\ pc[p] = "zipw"
  /\ zip' \in Closed(p)
  /\ log' = [log EXCEPT ![p] = @ \o <<Line("Package created", <<zip_path>>),
                                       Line("Total size", <<zip_path>>)>>]
  /\ Goto(p, "done")
  /\ UNCHANGED <<basefiles, qrdir, qrfiles, pkgdirs, files, i, todo, cur,
                 snap, raced, off, early, pre, rerun, touched, events>>

\* The positions at which a file-system call is about to be made.
AtFsCall(p) ==
  \/ pc[p] \in {"mkroot", "mksub", "copyw", "qrw", "readme", "readmew",
                "zip", "zipw"}
  \/ pc[p] = "copy" /\ exists(copies[i[p]].src)
  \/ pc[p] = "qr" /\ qrdir
  \/ pc[p] = "qrloop" /\ \E n \in todo[p] : IsPng(n)

\* mutant: a failed run removes what it has built
FaultRollback(p) ==
  /\ AtFsCall(p)
  /\ events < MaxEvents
  /\ events' = events + 1
  /\ pkgdirs' = {}
  /\ files' = [q \in PkgPaths |-> Absent]
  /\ Goto(p, "failed")
  /\ UNCHANGED <<basefiles, qrdir, qrfiles, zip, i, todo, cur, snap, raced, log,
                 off, early, pre, rerun, touched>>

\* A file-system call raises OSError: nothing catches it, the run ends.
Fault(p) ==
  /\ AtFsCall(p)
  /\ events < MaxEvents
  /\ events' = events + 1
  /\ Goto(p, "failed")
  /\ UNCHANGED <<basefiles, qrdir, qrfiles, pkgdirs, files, zip, i, todo,
                 cur, snap, raced, log, off, early, pre, rerun, touched>>

\* ------------------------------------------------------- the environment
Quiet == \A p \in Procs : pc[p] \in Stopped

\* Between runs somebody writes, rewrites or deletes a source file.
EnvSource ==
  /\ Quiet /\ events < MaxEvents
  /\ \E s \in SrcPaths, f \in {Absent} \cup {FileOf(c) : c \in Data} :
       /\ f # basefiles[s]
       /\ basefiles' = [basefiles EXCEPT ![s] = f]
  /\ events' = events + 1
  /\ touched' = TRUE
  /\ UNCHANGED <<qrdir, qrfiles, pkgdirs, files, zip, pc, i, todo, cur, snap,
                 raced, log, off, early, pre, rerun>>

\* Between runs somebody writes, rewrites or deletes a file of <base>/qrcodes.
EnvQrFile ==
  /\ Quiet /\ events < MaxEvents
  /\ qrdir
  /\ \E n \in QRNames, f \in {Absent} \cup {FileOf(c) : c \in Data} :
       /\ f # qrfiles[n]
       /\ qrfiles' = [qrfiles EXCEPT ![n] = f]
  /\ events' = events + 1
  /\ touched' = TRUE
  /\ UNCHANGED <<basefiles, qrdir, pkgdirs, files, zip, pc, i, todo, cur,
                 snap, raced, log, off, early, pre, rerun>>

\* Between runs <base>/qrcodes is created, or removed with what it holds.
EnvQrDir ==
  /\ Quiet /\ events < MaxEvents
  /\ qrdir' = ~qrdir
  /\ qrfiles' = [n \in QRNames |-> Absent]
  /\ events' = events + 1
  /\ touched' = TRUE
  /\ UNCHANGED <<basefiles, pkgdirs, files, zip, pc, i, todo, cur, snap,
                 raced, log, off, early, pre, rerun>>

\* --------------------------------------------------------- specifications
Step(p) ==
  \/ Start(p) \/ MkRoot(p) \/ MkSub(p)
  \/ CopyOpen(p) \/ CopyWrite(p) \/ CopyMissing(p)
  \/ QrList(p) \/ QrNoDir(p) \/ QrOpen(p) \/ QrWrite(p) \/ QrIgnore(p)
  \/ ReadmeOpen(p) \/ ReadmeWrite(p) \/ ZipOpen(p) \/ ZipClose(p)

\* One invocation at a time, with failing calls and changes between runs.
Next ==
  \/ Step(1)
  \/ Fault(1)
  \/ EnvSource \/ EnvQrFile \/ EnvQrDir

Spec == Init /\ [][Next]_vars

\* Two invocations at once on the same base directory.
NextConc == \E p \in Procs : Step(p)

SpecConc == Init /\ [][NextConc]_vars

\* ------------------------------------------------------------ properties
\* a run has completed and the sources are as they were during it
Done == pc[1] = "done" /\ ~touched
Printed(p, line) == \E k \in DOMAIN log[p] : log[p][k] = line
SrcOf(k) == basefiles[copies[k].src]

\* C1: after a run that completes, the destination of every manifest entry
\* whose source exists holds exactly the source's content, also when the
\* destination held something else before the run.
C1_CopiedIdentical ==
  Done => \A k \in DOMAIN copies :
            SrcOf(k).ex => files[copies[k].dst] = SrcOf(k)

C1_Overwritten ==
  /\ Done
  /\ \E k \in DOMAIN copies :
       /\ SrcOf(k).ex
       /\ pre.files[copies[k].dst].ex
       /\ pre.files[copies[k].dst] # SrcOf(k)
       /\ files[copies[k].dst] = SrcOf(k)

\* C2: a manifest entry whose source is absent is reported with a "Not found"
\* line and passed over without touching the package and without ending the
\* run, and so is a missing QR directory; after the run the destination is as
\* it was before.
C2_MissingStep ==
  /\ (pc[1] = "copy" /\ ~SrcOf(i[1]).ex) =>
       /\ pc'[1] \in {"copy", "qr"}
       /\ UNCHANGED fsvars
       /\ log'[1] = Append(log[1], Line("Not found", copies[i[1]].src))
  /\ (pc[1] = "qr" /\ ~qrdir) =>
       /\ pc'[1] = "readme"
       /\ UNCHANGED <<fsvars, log>>

C2_MissingAfter ==
  Done => \A k \in DOMAIN copies :
            ~SrcOf(k).ex =>
               /\ files[copies[k].dst] = pre.files[copies[k].dst]
               /\ Printed(1, Line("Not found", copies[k].src))

C2_MissingSkipped == [][C2_MissingStep]_vars /\ []C2_MissingAfter

C2_Skipped ==
  /\ Done
  /\ ~qrdir
  /\ \E k \in DOMAIN copies :
       /\ ~SrcOf(k).ex
       /\ ~files[copies[k].dst].ex
       /\ Printed(1, Line("Not found", copies[k].src))
  /\ Printed(1, Line("Package created", <<zip_path>>))

\* C3: after a run that completes, the package root and the five
\* subdirectories exist, whatever was there before.
C3_DirsExist == Done => pkgdirs = PkgDirs

C3_PartialBefore ==
  /\ Done
  /\ pre.dirs # {}
  /\ pre.dirs # PkgDirs
  /\ \E k \in DOMAIN copies : ~SrcOf(k).ex
  /\ pkgdirs = PkgDirs

\* C4: the archive of a completed run holds every directory and every file
\* of the package directory with its content, the README and the copies of
\* this run among them, and nothing else; it replaces the archive before it.
InArchive(z, arc, kind, data) ==
  [arc |-> arc, kind |-> kind, data |-> data] \in z.entries

C4_ArchiveIsTree ==
  Done =>
    /\ zip.st = "ok"
    /\ \A d \in pkgdirs : InArchive(zip, DirArc(d), "dir", <<>>)
    /\ \A q \in PkgPaths :
         files[q].ex => InArchive(zip, ArcOf(q), "file", files[q].data)
    /\ \A e \in zip.entries :
         \/ e.kind = "dir" /\ \E d \in pkgdirs : e.arc = DirArc(d)
         \/ e.kind = "file" /\ \E q \in PkgPaths :
                                 files[q].ex /\ e.arc = ArcOf(q) /\ e.data = files[q].data
    /\ ExtractDirs(zip) = pkgdirs
    /\ ExtractFiles(zip) = files
    /\ InArchive(zip, ArcOf(ReadmePath), "file", readme_content)
    /\ \A k \in DOMAIN copies :
         SrcOf(k).ex => InArchive(zip, ArcOf(copies[k].dst), "file", SrcOf(k).data)

C4_Replaced ==
  /\ Done
  /\ pre.zip.st = "ok"
  /\ pre.zip # zip
  /\ \E d \in pkgdirs : \A q \in PkgPaths : q[1] = d => ~files[q].ex

\* C5: a run that starts right after a completed run, with no source changed
\* in between, leaves the package and the archive as that run left them.
C5_Idempotent == (Done /\ rerun) => Tree = pre

C5_SecondRun == Done /\ rerun /\ zip.st = "ok" /\ pre.zip.st = "ok"

\* C6 as stated: every image file of the QR directory is copied with its
\* name and content, and no file that is not an image is.
ImageSuffixes == {<<".", "p", "n", "g">>, <<".", "j", "p", "g">>}
IsImage(name) == \E suf \in ImageSuffixes : EndsWith(Spell(name), suf)

C6_ImagesCopied ==
  (Done /\ qrdir) =>
    \A n \in QRNames :
      qrfiles[n].ex =>
        IF IsImage(n) THEN files[QrDst(n)] = qrfiles[n]
        ELSE files[QrDst(n)] = pre.files[QrDst(n)]

\* C6 (amended): every file of the QR directory whose name ends with ".png"
\* is copied with its name and content, and no other file of it is copied.
C6_PngCopied ==
  (Done /\ qrdir) =>
    \A n \in QRNames :
      qrfiles[n].ex =>
        IF EndsWith(Spell(n), <<".", "p", "n", "g">>)
        THEN files[QrDst(n)] = qrfiles[n]
        ELSE files[QrDst(n)] = pre.files[QrDst(n)]

C6_QrCopied ==
  /\ Done /\ qrdir
  /\ \A n \in QRNames : qrfiles[n].ex
  /\ files[QrDst("a.png")] = qrfiles["a.png"]
  /\ ~files[QrDst("b.jpg")].ex
  /\ ~files[QrDst("c.txt")].ex
  /\ Printed(1, Line("Copied QR", <<"a.png">>))

\* C7: after a run that completes, README.md is in the package root, holds
\* exactly the fixed text, which names the five subdirectories, whatever the
\* sources were and whatever README was there before.
Names(text, d) ==
  \E k \in 1..(Len(text) - 1) : text[k] = d /\ text[k + 1] = "/"

C7_Readme ==
  Done =>
    /\ files[ReadmePath].ex
    /\ files[ReadmePath].data = readme_content
    /\ \A k \in DOMAIN dirs : Names(files[ReadmePath].data, dirs[k])

C7_ReadmeOverwritten ==
  /\ Done
  /\ pre.files[ReadmePath].ex
  /\ pre.files[ReadmePath].data # readme_content
  /\ files[ReadmePath].data = readme_content

\* C8: a failing file-system call ends the run there: the package, the
\* archive and the printed lines stay as the steps before it left them, no
\* further step of the run follows (only a new invocation), and the success
\* summary is never printed.
C8_FailStep ==
  /\ (pc[1] # "failed" /\ pc'[1] = "failed") => UNCHANGED <<fsvars, log>>
  /\ pc[1] = "failed" =>
       /\ pc'[1] \in {"failed", "mkroot"}
       /\ pc'[1] = "failed" => UNCHANGED <<fsvars, log, i, todo>>

C8_NoSummary ==
  pc[1] = "failed" =>
    /\ ~Printed(1, Line("Package created", <<zip_path>>))
    /\ ~Printed(1, Line("Total size", <<zip_path>>))

CopiedTo(q) ==
  \/ \E k \in DOMAIN copies : q = copies[k].dst /\ SrcOf(k).ex
  \/ \E n \in QRNames : q = QrDst(n) /\ qrdir /\ qrfiles[n].ex /\ IsPng(n)

\* C9 as stated: every file that was in the package before the run and is
\* not the destination of a copy of this run is unchanged after it and is in
\* the archive.
C9_OthersUnchanged ==
  Done =>
    \A q \in PkgPaths :
      (pre.files[q].ex /\ ~CopiedTo(q)) =>
        /\ files[q] = pre.files[q]
        /\ InArchive(zip, ArcOf(q), "file", pre.files[q].data)

\* C9 (amended): no step of a run removes a file or a directory of the
\* package, and every file other than README.md that was in the package
\* before the run and is not the destination of a copy of this run is
\* unchanged after it and is in the archive.
C9_NoDeleteStep ==
  /\ pkgdirs \subseteq pkgdirs'
  /\ \A q \in PkgPaths : files[q].ex => files'[q].ex

C9_StaleKept ==
  Done =>
    \A q \in PkgPaths \ {ReadmePath} :
      (pre.files[q].ex /\ ~CopiedTo(q)) =>
        /\ files[q] = pre.files[q]
        /\ InArchive(zip, ArcOf(q), "file", pre.files[q].data)

C9_NeverDeletes == [][C9_NoDeleteStep]_vars /\ []C9_StaleKept

C9_Stale ==
  /\ Done
  /\ \E k \in DOMAIN copies :
       /\ ~SrcOf(k).ex
       /\ pre.files[copies[k].dst].ex
       /\ InArchive(zip, ArcOf(copies[k].dst), "file", pre.files[copies[k].dst].data)

\* C10: no invocation waits for another: whatever the other is doing, each
\* invocation can take its next step (and a new one can start), so that the
\* file operations of two invocations interleave in any order.
C10_NoLock == \A p \in Procs : ENABLED Step(p)

\* both invocations have completed, one of them walked the package while the
\* other was filling it, and the archive, though well formed, is not the
\* package directory
C10_ArchiveDiffers ==
  /\ \A p \in Procs : pc[p] = "done"
  /\ \E p \in Procs : early[p]
  /\ zip.st = "ok"
  /\ ExtractFiles(zip) # files
====
